---- MODULE Spec2Model ----
(***************************************************************************)
(* dz-mcall: the worker pool / batch orchestrator (execCmd, Pipeline,      *)
(* CallFetch, FetchedInput) and the leader-elected task distributor        *)
(* (runLeaderElection, runAsLeader, distributeTasks, assignTaskToPod,      *)
(* runAsWorker, processAssignedTasks), modelled from src/unnamed/part_003  *)
(* (the same pool code is in src/mcall.go); and the probe executor with    *)
(* its expectation evaluator (command, fetchCmd, exeCmd, checkRslt,        *)
(* errorHandle) of the program listed in src/LEADER_ELECTION.md.           *)
(***************************************************************************)
EXTENDS Integers, Sequences, FiniteSets, TLC

(***************************************************************************)
(* Bounds of the model and constants of the program.                       *)
(***************************************************************************)
MaxBatch == 3
WorkerNum == 2
DefaultChannelSize == 100

RequestTypeCmd == "cmd"
RequestTypeGet == "get"
ErrorCodeSuccess == "0"
ErrorCodeFailure == "-1"

NumTasks == 2
MaxTime == 1
MaxClaims == 3
MaxContent == 2
MaxAlts == 2
MaxSent == 2
MaxItems == 2
MaxRequests == 2
WORKERNUM == 2
G_TIMEOUT == 10
LeaseDuration == 15
RenewDeadline == 10

InputSet == {"", "x", "y"}
TypeSet == {RequestTypeCmd, RequestTypeGet}
Workers == 1..WorkerNum

SeqsUpTo(S, n) == UNION {[1..k -> S] : k \in 0..n}

VARIABLES
  expects,     \* the expect fields of the request's items (no parameter of execCmd)
  inputs,      \* execCmd: the inputs argument
  types,       \* execCmd: the types argument
  bpc,         \* execCmd: position of the orchestrator
  bi,          \* execCmd: number of items submitted so far (loop index)
  request,     \* Pipeline.request: buffered channel of Commanders
  done,        \* Pipeline.done: TRUE once closed
  wk,          \* the worker goroutines started by Pipeline.Run
  memo,        \* FetchedInput.m: input -> recorded error, or "absent"
  resch,       \* CallFetch.result of the call made for item i (capacity 1)
  results,     \* execCmd: the results slice
  probeCount   \* number of probes (fetchCmd/fetchHTTP) started per input

VARIABLES
  proc,        \* per replica: the process ("init", "up", "exited")
  le,          \* per replica: position of leaderelection.RunOrDie
  lease,       \* the Lease object: holder identity and last renewal time
  ld,          \* per replica: the runAsLeader goroutine
  fw,          \* per replica: the runAsWorker goroutine
  store,       \* the task ConfigMaps (ClaimRecords) in the namespace
  now          \* time.Now().Unix()

VARIABLES
  g,           \* LEADER_ELECTION.md: the CallFetch item handed to command()
  lx,          \* position and locals of command() / fetchCmd / exeCmd / checkRslt
  cp,          \* the child process of exeCmd, its reader goroutine and timer
  sent,        \* the receivers sendMsg has notified
  ran          \* TRUE once the remediation command g.exec has been started

VARIABLES
  desc,        \* the batch descriptor a client or the configuration means
  rq           \* the request surface: the handler or the task path at work on it

reqVars == <<desc, rq>>

VARIABLES
  GL,          \* LEADER_ELECTION.md: the package-level lists INPUTS, STYPES, ... , TIMEOUTS
  cx,          \* the handler at work: its request, execCmd, fetchedInput.m, the collector
  cw           \* the worker goroutines of the pipeline of this execCmd

chainVars == <<GL, cx, cw>>

distVars == <<proc, le, lease, ld, fw, store, now>>

legacyVars == <<g, lx, cp, sent, ran>>

batchVars == <<expects, inputs, types, bpc, bi, request, done, wk, memo, resch, results, probeCount>>

(***************************************************************************)
(* FetchedInput                                                            *)
(***************************************************************************)
NewFetchedInput == [x \in InputSet |-> "absent"]

IsProcessedNever(m, input) == FALSE

\* IsProcessedOk: an input counting as processed only when its recorded error is nil
IsProcessedOk(m, input) == m[input] = "nil"

\* _, exists := fi.m[input]; return exists
IsProcessed(m, input) == m[input] # "absent"

MarkProcessed(m, input, err) == [m EXCEPT ![input] = err]

(***************************************************************************)
(* CallFetch                                                               *)
(***************************************************************************)
NoCall == [idx |-> 0, input |-> "", sType |-> ""]

NewCallFetch(i, input, sType) == [idx |-> i, input |-> input, sType |-> sType]

\* switch cf.sType: which probe Execute runs for a non-empty input
ProbeKind(sType) == IF sType = RequestTypeCmd THEN "fetchCmd" ELSE "fetchHTTP"

\* what the command or URL of an input produces when its probe succeeds
Output(input) ==
  CASE input = "x" -> <<"a">>
    [] input = "y" -> <<"5">>
    [] OTHER -> <<>>

\* (doc, err) of fetchCmd / fetchHTTP: the output and nil; "" and an error
\* (timeout, spawn or connect failure); for a command also its output with
\* an error (non-zero exit)
ProbeOutcomes(cf) ==
  {[doc |-> Output(cf.input), err |-> "nil"], [doc |-> <<>>, err |-> "err"]} \cup
  (IF cf.sType = RequestTypeCmd THEN {[doc |-> Output(cf.input), err |-> "err"]} ELSE {})

\* content := cf.parseContent(doc), which returns doc
FetchedResult(cf, doc, err) ==
  [input |-> cf.input,
   errorCode |-> IF err # "nil" THEN ErrorCodeFailure ELSE ErrorCodeSuccess,
   content |-> doc]

\* format "json" without base64 encoding
formatResult(result) ==
  [input |-> result.input, errorCode |-> result.errorCode, result |-> result.content]

\* every return of Execute is "return nil"
ExecuteReturn == "nil"

(***************************************************************************)
(* execCmd: the orchestrator                                               *)
(***************************************************************************)
DefaultTypes(ts) == IF Len(ts) = 0 THEN <<RequestTypeCmd>> ELSE ts

TypeAt(ts, i) == IF i <= Len(ts) THEN ts[i] ELSE ts[1]

IdleWorkers == [w \in Workers |-> [st |-> "idle", call |-> NoCall, ret |-> "none"]]

\* pipeline := NewPipeline(); pipeline.Run(app.workerNum); fetchedInput := NewFetchedInput()
BatchInit ==
  /\ expects = <<>>
  /\ inputs \in SeqsUpTo(InputSet, MaxBatch)
  /\ types \in SeqsUpTo(TypeSet, Len(inputs))
  /\ bpc = "submit"
  /\ bi = 0
  /\ request = <<>>
  /\ done = FALSE
  /\ wk = IdleWorkers
  /\ memo = NewFetchedInput
  /\ resch = [i \in 1..(MaxBatch + 1) |-> <<>>]
  /\ results = <<>>
  /\ probeCount = [x \in InputSet |-> 0]

\* no execCmd call in progress
BatchIdle ==
  /\ expects = <<>>
  /\ inputs = <<>>
  /\ types = <<>>
  /\ bpc = "idle"
  /\ bi = 0
  /\ request = <<>>
  /\ done = FALSE
  /\ wk = [w \in Workers |-> [st |-> "exited", call |-> NoCall, ret |-> "none"]]
  /\ memo = NewFetchedInput
  /\ resch = [i \in 1..(MaxBatch + 1) |-> <<>>]
  /\ results = <<>>
  /\ probeCount = [x \in InputSet |-> 0]

\* call := NewCallFetch(...); pipeline.request <- call
Submit ==
  /\ bpc = "submit"
  /\ bi < Len(inputs)
  /\ Len(request) < DefaultChannelSize
  /\ request' = Append(request,
                  NewCallFetch(bi + 1, inputs[bi + 1], TypeAt(DefaultTypes(types), bi + 1)))
  /\ bi' = bi + 1
  /\ bpc' = "wait"
  /\ UNCHANGED <<chainVars, reqVars, legacyVars, distVars, expects, inputs, types, done, wk, memo, resch, results, probeCount>>

\* result := <-call.result; results = append(results, app.formatResult(result))
Receive ==
  /\ bpc = "wait"
  /\ resch[bi] # <<>>
  /\ results' = Append(results, formatResult(Head(resch[bi])))
  /\ resch' = [resch EXCEPT ![bi] = Tail(@)]
  /\ bpc' = "submit"
  /\ UNCHANGED <<chainVars, reqVars, legacyVars, distVars, expects, inputs, types, bi, request, done, wk, memo, probeCount>>

\* the loop is over: return results; the deferred pipeline.Stop() closes done
Return ==
  /\ bpc = "submit"
  /\ bi = Len(inputs)
  /\ done' = TRUE
  /\ bpc' = "stop"
  /\ UNCHANGED <<chainVars, reqVars, legacyVars, distVars, expects, inputs, types, bi, request, wk, memo, resch, results, probeCount>>

\* StopNoWait: Stop returning after close(p.done), without p.wg.Wait()
StopNoWait ==
  /\ bpc = "stop"
  /\ bpc' = "done"
  /\ UNCHANGED <<chainVars, reqVars, legacyVars, distVars, expects, inputs, types, bi, request, done, wk, memo, resch, results, probeCount>>

\* Pipeline.Stop: p.wg.Wait() returns once every worker has exited
StopWait ==
  /\ bpc = "stop"
  /\ \A w \in Workers : wk[w].st \in {"none", "exited"}
  /\ bpc' = "done"
  /\ UNCHANGED <<chainVars, reqVars, legacyVars, distVars, expects, inputs, types, bi, request, done, wk, memo, resch, results, probeCount>>

execCmd == Submit \/ Receive \/ Return \/ StopWait

(***************************************************************************)
(* Pipeline.Worker and CallFetch.Execute                                   *)
(***************************************************************************)
\* case r, ok := <-p.request
WorkerRecv(w) ==
  /\ wk[w].st = "idle"
  /\ request # <<>>
  /\ wk' = [wk EXCEPT ![w].st = "exec", ![w].call = Head(request)]
  /\ request' = Tail(request)
  /\ UNCHANGED <<chainVars, reqVars, legacyVars, distVars, expects, inputs, types, bpc, bi, done, memo, resch, results, probeCount>>

\* case <-p.done: return
WorkerDone(w) ==
  /\ wk[w].st = "idle"
  /\ done
  /\ wk' = [wk EXCEPT ![w].st = "exited"]
  /\ UNCHANGED <<chainVars, reqVars, legacyVars, distVars, expects, inputs, types, bpc, bi, request, done, memo, resch, results, probeCount>>

\* Execute, up to the start of the probe
ExecuteCheck(w) ==
  /\ wk[w].st = "exec"
  /\ LET cf == wk[w].call IN
       IF IsProcessed(memo, cf.input)
       THEN \* return nil: nothing is sent on cf.result
            /\ wk' = [wk EXCEPT ![w] = [st |-> "idle", call |-> NoCall, ret |-> ExecuteReturn]]
            /\ UNCHANGED <<memo, resch, probeCount>>
       ELSE IF cf.input # ""
       THEN \* doc, err = fetchCmd(cf.input) / fetchHTTP(cf.input, ...) is started
            /\ wk' = [wk EXCEPT ![w].st = ProbeKind(cf.sType)]
            /\ probeCount' = [probeCount EXCEPT ![cf.input] = @ + 1]
            /\ UNCHANGED <<memo, resch>>
       ELSE \* empty input: no probe, err is nil
            /\ memo' = MarkProcessed(memo, cf.input, "nil")
            /\ resch' = [resch EXCEPT ![cf.idx] = Append(@, FetchedResult(cf, <<>>, "nil"))]
            /\ wk' = [wk EXCEPT ![w] = [st |-> "idle", call |-> NoCall, ret |-> ExecuteReturn]]
            /\ UNCHANGED probeCount
  /\ UNCHANGED <<chainVars, reqVars, legacyVars, distVars, expects, inputs, types, bpc, bi, request, done, results>>

\* the probe returns (doc, err): MarkProcessed, build the result, cf.result <- result
ExecuteFinish(w) ==
  /\ wk[w].st \in {"fetchCmd", "fetchHTTP"}
  /\ LET cf == wk[w].call IN
       \E o \in ProbeOutcomes(cf) :
         /\ memo' = MarkProcessed(memo, cf.input, o.err)
         /\ resch' = [resch EXCEPT ![cf.idx] = Append(@, FetchedResult(cf, o.doc, o.err))]
  /\ wk' = [wk EXCEPT ![w] = [st |-> "idle", call |-> NoCall, ret |-> ExecuteReturn]]
  /\ UNCHANGED <<chainVars, reqVars, legacyVars, distVars, expects, inputs, types, bpc, bi, request, done, results, probeCount>>

Worker(w) == WorkerRecv(w) \/ WorkerDone(w) \/ ExecuteCheck(w) \/ ExecuteFinish(w)

BatchNext == execCmd \/ \E w \in Workers : Worker(w)

(***************************************************************************)
(* The Pipeline used directly by a caller, as TestPipeline does:           *)
(* NewPipeline(), Run(n), Commanders sent on p.request, Stop(), and Stop() *)
(* once more                                                               *)
(***************************************************************************)
\* p.wg.Add(workerNum) and workerNum goroutines running p.Worker(); "none"
\* is a goroutine that was not started
RunWorkers(n) ==
  [w \in Workers |-> [st |-> IF w <= n THEN "idle" ELSE "none", call |-> NoCall, ret |-> "none"]]

\* pipeline := NewPipeline(); fetchedInput := NewFetchedInput(); pipeline.Run(n)
PipelineInit ==
  /\ expects = <<>>
  /\ inputs = <<>>
  /\ types = <<>>
  /\ bpc = "running"
  /\ bi = 0
  /\ request = <<>>
  /\ done = FALSE
  /\ \E n \in 1..WorkerNum : wk = RunWorkers(n)
  /\ memo = NewFetchedInput
  /\ resch = [i \in 1..(MaxBatch + 1) |-> <<>>]
  /\ results = <<>>
  /\ probeCount = [x \in InputSet |-> 0]

\* pipeline.request <- NewCallFetch(fetchedInput, pipeline, input, sType, name),
\* for the empty input or one that is probed
CallerSend ==
  /\ bpc = "running"
  /\ bi < MaxSent
  /\ Len(request) < DefaultChannelSize
  /\ \E input \in {"", "x"}, sType \in TypeSet :
       /\ request' = Append(request, NewCallFetch(bi + 1, input, sType))
       /\ inputs' = Append(inputs, input)
       /\ types' = Append(types, sType)
  /\ bi' = bi + 1
  /\ UNCHANGED <<chainVars, reqVars, legacyVars, distVars, expects, bpc, done, wk, memo, resch, results, probeCount>>

\* pipeline.Stop(): close(p.done), then p.wg.Wait() (StopWait)
CallerStop ==
  /\ bpc = "running"
  /\ done' = TRUE
  /\ bpc' = "stop"
  /\ UNCHANGED <<chainVars, reqVars, legacyVars, distVars, expects, inputs, types, bi, request, wk, memo, resch, results, probeCount>>

\* pipeline.Stop() on the stopped pipeline: close(p.done) of a closed channel
\* panics ("close of closed channel") before p.wg.Wait() is reached
StopAgain ==
  /\ bpc = "done"
  /\ done
  /\ bpc' = "panic"
  /\ UNCHANGED <<chainVars, reqVars, legacyVars, distVars, expects, inputs, types, bi, request, done, wk, memo, resch, results, probeCount>>

PipelineNext ==
  \/ CallerSend \/ CallerStop \/ StopWait \/ StopAgain
  \/ \E w \in Workers : Worker(w)

(***************************************************************************)
(* The distributed overlay: replicas, the lease, the claim store           *)
(***************************************************************************)
PodNames == <<"p1", "p2", "p3">>
Pods == {PodNames[n] : n \in 1..Len(PodNames)}
NoPod == ""

\* podName := os.Getenv("HOSTNAME"); if podName == "" { podName = "mcall-pod" }
\* with HOSTNAME unset on every replica
IdentityDefault(r) == "mcall-pod"

\* podName := os.Getenv("HOSTNAME"): Kubernetes sets it to the pod's name
Identity(r) == r

\* generateTasks: one task per configured input, ids task-1..task-n
generateTasks == [k \in 1..NumTasks |-> [id |-> <<"task", k>>, command |-> <<"input", k>>]]

\* fmt.Sprintf("task-%s-%d", podName, time.Now().Unix())
TaskName(podName, t) == <<"task", podName, t>>

NoLeader == [pc |-> "none", ctx |-> "live", workerPods |-> <<>>, k |-> 0, at |-> 0]

NoWorker == [pc |-> "none", items |-> <<>>]

DistInit ==
  /\ proc = [r \in Pods |-> "init"]
  /\ le = [r \in Pods |-> "none"]
  /\ lease = [holder |-> NoPod, renewTime |-> 0]
  /\ ld = [r \in Pods |-> NoLeader]
  /\ fw = [r \in Pods |-> NoWorker]
  /\ store = {}
  /\ now = 0

\* the clock advances
Tick ==
  /\ now < MaxTime
  /\ now' = now + 1
  /\ UNCHANGED <<chainVars, reqVars, legacyVars, batchVars, proc, le, lease, ld, fw, store>>

(***************************************************************************)
(* mainExec / runLeaderElection                                            *)
(***************************************************************************)
\* mainExec -> runLeaderElection: the worker goroutine is started, then
\* leaderelection.RunOrDie starts competing for the lease
Start(r) ==
  /\ proc[r] = "init"
  /\ proc' = [proc EXCEPT ![r] = "up"]
  /\ le' = [le EXCEPT ![r] = "acquiring"]
  /\ fw' = [fw EXCEPT ![r] = [pc |-> "wait", items |-> <<>>]]
  /\ UNCHANGED <<chainVars, reqVars, legacyVars, batchVars, lease, ld, store, now>>

\* LeaseDuration 15s, RenewDeadline 10s: a holder that cannot renew gives up
\* and its process ends before the lease expires for the others
LeaseExpired ==
  /\ lease.holder # NoPod
  /\ now > lease.renewTime
  /\ \A h \in Pods :
       Identity(h) = lease.holder =>
         /\ le[h] # "leading"
         /\ (RenewDeadline < LeaseDuration => proc[h] # "up")

\* the LeaseLock with LockConfig.Identity = podName: the lease is taken when
\* it has no holder, when it names this identity, or when it has expired
CanAcquire(r) ==
  \/ lease.holder = NoPod
  \/ lease.holder = Identity(r)
  \/ LeaseExpired

\* RunOrDie acquires the lease; OnStartedLeading: go app.runAsLeader(ctx)
Acquire(r) ==
  /\ le[r] = "acquiring"
  /\ CanAcquire(r)
  /\ lease' = [holder |-> Identity(r), renewTime |-> now]
  /\ le' = [le EXCEPT ![r] = "leading"]
  /\ ld' = [ld EXCEPT ![r] = [NoLeader EXCEPT !.pc = "start"]]
  /\ UNCHANGED <<chainVars, reqVars, legacyVars, batchVars, proc, fw, store, now>>

\* renewal fails past the deadline: RunOrDie cancels the leader context,
\* calls OnStoppedLeading (a log line) and returns; the lease is not released
LoseLease(r) ==
  /\ le[r] = "leading"
  /\ le' = [le EXCEPT ![r] = "stopped"]
  /\ ld' = [ld EXCEPT ![r].ctx = "cancelled"]
  /\ lease' = [lease EXCEPT !.renewTime = now]
  /\ UNCHANGED <<chainVars, reqVars, legacyVars, batchVars, proc, fw, store, now>>

\* RunOrDie has returned: runLeaderElection returns nil, mainExec returns nil,
\* main returns and the process ends with all its goroutines
Exit(r) ==
  /\ le[r] = "stopped"
  /\ proc' = [proc EXCEPT ![r] = "exited"]
  /\ le' = [le EXCEPT ![r] = "none"]
  /\ ld' = [ld EXCEPT ![r] = NoLeader]
  /\ fw' = [fw EXCEPT ![r] = NoWorker]
  /\ UNCHANGED <<chainVars, reqVars, legacyVars, batchVars, lease, store, now>>

(***************************************************************************)
(* runAsLeader / distributeTasks / assignTaskToPod                         *)
(***************************************************************************)
\* the pods of the namespace: the replicas, labelled project=mcall, and a
\* pod of another workload without that label, which is always Running
NamespacePods == PodNames \o <<"db">>

Labelled(p) == p \in Pods

\* pod.Status.Phase: a replica is Running while its process is up
Phase(p) == IF p \in Pods /\ proc[p] # "up" THEN "NotRunning" ELSE "Running"

\* Pods(app.namespace).List(ctx, ListOptions{LabelSelector: "project=mcall"})
ListPods == SelectSeq(NamespacePods, Labelled)

\* WorkerPodsWithSelf: the filter without pod.Name != os.Getenv("HOSTNAME")
WorkerPodsWithSelf(r) == SelectSeq(ListPods, LAMBDA p : Phase(p) = "Running")

\* pod.Name != os.Getenv("HOSTNAME") && pod.Status.Phase == "Running",
\* in the order of the listing
WorkerPods(r) == SelectSeq(ListPods, LAMBDA p : p # Identity(r) /\ Phase(p) = "Running")

PickFirstWorker(workerPods, k) == workerPods[1]

\* workerPods[i%len(workerPods)], i the 0-based index of task k
PickWorker(workerPods, k) == workerPods[((k - 1) % Len(workerPods)) + 1]

\* RoundDueAnyTime: the loop calling distributeTasks without waiting for the ticker
RoundDueAnyTime(r) == ld[r].pc \in {"start", "wait"}

\* runAsLeader: the call of distributeTasks before the loop, and the one of
\* case <-ticker.C
RoundDue(r) ==
  \/ ld[r].pc = "start"
  \/ ld[r].pc = "wait" /\ now > ld[r].at

\* distributeTasks starts: the first call of runAsLeader, or case <-ticker.C
\* (a round is far shorter than the 5-minute period, so the ticker fires only
\* after time has passed since the last call of the previous round); the
\* model starts no round that could take the store beyond MaxClaims ConfigMaps
RoundBegin(r) ==
  /\ RoundDue(r)
  /\ Cardinality(store) + NumTasks <= MaxClaims
  /\ IF ld[r].ctx = "cancelled" \/ Len(generateTasks) = 0 \/ Len(WorkerPods(r)) = 0
     THEN \* the pod listing fails, or there is nothing to distribute
          ld' = [ld EXCEPT ![r].pc = "wait", ![r].workerPods = <<>>, ![r].k = 0,
                           ![r].at = now]
     ELSE ld' = [ld EXCEPT ![r].pc = "round", ![r].workerPods = WorkerPods(r), ![r].k = 1,
                           ![r].at = now]
  /\ UNCHANGED <<chainVars, reqVars, legacyVars, batchVars, proc, le, lease, fw, store, now>>

NewClaim(podName, task, t) ==
  [name |-> TaskName(podName, t), assignedTo |-> podName, taskData |-> task,
   processed |-> FALSE, processedBy |-> NoPod]

StoreNames == {c.name : c \in store}

\* one iteration of the loop of distributeTasks: assignTaskToPod(ctx, workerPod, task);
\* an error is logged and the loop goes on
AssignTask(r) ==
  /\ ld[r].pc = "round"
  /\ \E apiOk \in BOOLEAN :
       LET k == ld[r].k
           task == generateTasks[k]
           workerPod == PickWorker(ld[r].workerPods, k)
           cm == NewClaim(workerPod, task, now)
           created == apiOk /\ ld[r].ctx = "live" /\ cm.name \notin StoreNames
       IN  /\ store' = IF created THEN store \cup {cm} ELSE store
           /\ ld' = [ld EXCEPT ![r].k = k + 1,
                               ![r].at = now,
                               ![r].pc = IF k = Len(generateTasks) THEN "wait" ELSE "round"]
  /\ UNCHANGED <<chainVars, reqVars, legacyVars, batchVars, proc, le, lease, fw, now>>

\* case <-ctx.Done(): return ctx.Err()
LeaderReturn(r) ==
  /\ ld[r].pc = "wait"
  /\ ld[r].ctx = "cancelled"
  /\ ld' = [ld EXCEPT ![r] = [NoLeader EXCEPT !.pc = "returned", !.ctx = "cancelled"]]
  /\ UNCHANGED <<chainVars, reqVars, legacyVars, batchVars, proc, le, lease, fw, store, now>>

(***************************************************************************)
(* runAsWorker / processAssignedTasks / executeTask                        *)
(***************************************************************************)
AllNames ==
  [n \in 1..(Len(PodNames) * (MaxTime + 1)) |->
     TaskName(PodNames[((n - 1) \div (MaxTime + 1)) + 1], (n - 1) % (MaxTime + 1))]

ClaimNamed(S, nm) == CHOOSE c \in S : c.name = nm

\* a listing of ConfigMaps, in name order
Listing(S) ==
  LET names == SelectSeq(AllNames, LAMBDA nm : \E c \in S : c.name = nm)
  IN  [n \in 1..Len(names) |-> ClaimNamed(S, names[n])]

\* LabelSelector "project=mcall,task=true" without the assigned-to term
ListAllTasks(podName) == Listing(store)

\* LabelSelector "project=mcall,task=true,assigned-to=<podName>"
ListAssigned(podName) == Listing({c \in store : c.assignedTo = podName})

\* UnprocessedAll: the loop without the "already processed" check
UnprocessedAll(items) == items

\* if cm.Annotations["processed"] == "true" { continue }
Unprocessed(items) == SelectSeq(items, LAMBDA cm : ~cm.processed)

\* runAsWorker returning the error of processAssignedTasks instead of logging it
AfterTickReturn(err) == IF err = "nil" THEN "wait" ELSE "returned"

\* runAsWorker: if err := app.processAssignedTasks(...); err != nil { log };
\* the for/select loop goes on to the next tick
AfterTick(err) == "wait"

\* TickReadyAsync: a tick handled in a goroutine of its own
\* (go processAssignedTasks), which can begin while the previous one runs
TickReadyAsync(r) == fw[r].pc \in {"wait", "exec"}

\* runLeaderElection starts one runAsWorker goroutine; its for/select loop
\* calls processAssignedTasks synchronously, so the next <-ticker.C is
\* received only after the previous call has returned
TickReady(r) == fw[r].pc = "wait"

\* case <-ticker.C: processAssignedTasks lists the ConfigMaps of this pod
\* (a failed List returns the error to runAsWorker), skips the processed
\* ones and hands the first other one to executeTask (execCmd with a batch
\* of one); items holds the listed copies still to handle
WorkerTick(r) ==
  /\ TickReady(r)
  /\ \E listOk \in BOOLEAN :
       LET items == IF listOk THEN Unprocessed(ListAssigned(Identity(r))) ELSE <<>>
           err == IF listOk THEN "nil" ELSE "err"
       IN  fw' = [fw EXCEPT ![r] = IF items = <<>> THEN [pc |-> AfterTick(err), items |-> <<>>]
                                   ELSE [pc |-> "exec", items |-> items]]
  /\ UNCHANGED <<chainVars, reqVars, legacyVars, batchVars, proc, le, lease, ld, store, now>>

\* the annotations without processed = "true"
MarkedCopyNoFlag(cm, podName) == [cm EXCEPT !.processedBy = podName]

\* MarkedCopyBare: an update that keeps only the name and the new annotations
MarkedCopyBare(cm, podName) ==
  [cm EXCEPT !.processed = TRUE, !.processedBy = podName, !.assignedTo = NoPod,
             !.taskData = [id |-> <<"task", 0>>, command |-> <<"input", 0>>]]

\* cm.Annotations["processed"] = "true"; cm.Annotations["processed-by"] = podName
MarkedCopy(cm, podName) == [cm EXCEPT !.processed = TRUE, !.processedBy = podName]

\* a failed Update ending the loop over the listing
NextItemsAbort(items, apiOk) == IF apiOk THEN Tail(items) ELSE <<>>

\* the range loop goes on with the next listed ConfigMap whether or not
\* executeTask or Update failed (both errors are only logged)
NextItems(items, apiOk) == Tail(items)

\* executeTask has returned (it returns nil whatever the probe did): the
\* annotations are set on the listed copy and the ConfigMap is updated; the
\* loop goes on with the next item of the listing, and processAssignedTasks
\* returns nil after the last one
ExecDone(r, apiOk) ==
  /\ fw[r].pc = "exec"
  /\ LET cm == Head(fw[r].items)
         upd == MarkedCopy(cm, Identity(r))
         rest == NextItems(fw[r].items, apiOk)
     IN  /\ store' = IF apiOk /\ cm.name \in StoreNames
                      THEN (store \ {ClaimNamed(store, cm.name)}) \cup {upd}
                      ELSE store
         /\ fw' = [fw EXCEPT ![r] = IF rest = <<>> THEN [pc |-> AfterTick("nil"), items |-> <<>>]
                                     ELSE [pc |-> "exec", items |-> rest]]
  /\ UNCHANGED <<chainVars, reqVars, legacyVars, batchVars, proc, le, lease, ld, now>>

WorkerExecDone(r) == \E apiOk \in BOOLEAN : ExecDone(r, apiOk)

Replica(r) ==
  \/ Start(r) \/ Acquire(r) \/ LoseLease(r) \/ Exit(r)
  \/ RoundBegin(r) \/ AssignTask(r) \/ LeaderReturn(r)
  \/ WorkerTick(r) \/ WorkerExecDone(r)

Next == Tick \/ \E r \in Pods : Replica(r)

(***************************************************************************)
(* The probe executor and the expectation evaluator of the program listed  *)
(* in src/LEADER_ELECTION.md: command, fetchCmd, exeCmd, checkRslt,        *)
(* errorHandle.  Contents are sequences of characters; an expect is the    *)
(* sequence of its "|"-separated alternatives (<<>> is the empty expect).  *)
(***************************************************************************)
Chars == {"a", "5", "\n"}
ContentSet == SeqsUpTo(Chars, MaxContent)

\* strings.Contains(s, sub)
Contains(s, sub) ==
  \E n \in 0..(Len(s) - Len(sub)) : SubSeq(s, n + 1, n + Len(sub)) = sub

IsSpace(c) == c = "\n"

RECURSIVE TrimLeft(_)
TrimLeft(s) == IF s # <<>> /\ IsSpace(Head(s)) THEN TrimLeft(Tail(s)) ELSE s

RECURSIVE TrimRight(_)
TrimRight(s) ==
  IF s # <<>> /\ IsSpace(s[Len(s)]) THEN TrimRight(SubSeq(s, 1, Len(s) - 1)) ELSE s

\* strings.TrimSpace
TrimSpace(s) == TrimRight(TrimLeft(s))

DigitValue(c) == IF c = "5" THEN 5 ELSE 0

IsDigit(c) == c = "5"

RECURSIVE DecimalValue(_)
DecimalValue(s) ==
  IF s = <<>> THEN 0 ELSE 10 * DecimalValue(SubSeq(s, 1, Len(s) - 1)) + DigitValue(s[Len(s)])

\* strconv.Atoi: the value, or 0 and an error
Atoi(s) ==
  IF s # <<>> /\ \A n \in 1..Len(s) : IsDigit(s[n])
  THEN [n |-> DecimalValue(s), err |-> FALSE]
  ELSE [n |-> 0, err |-> TRUE]

\* the alternatives of an expect: a literal, or one of the four count forms
\* with the integer operand N
CountForms == {"$count < N", "N > $count", "$count > N", "N < $count"}
CountTargets == {10}
\* an operand that a content of the model equals, for "$count < N" and
\* "$count > N"
BoundaryTargets == {5}
SubTexts == {<<"a">>}
AltSet ==
  [form : {"substring"}, text : SubTexts, n : {0}] \cup
  [form : CountForms, text : {<<>>}, n : CountTargets] \cup
  [form : {"$count < N", "$count > N"}, text : {<<>>}, n : BoundaryTargets]
ExpectSet == SeqsUpTo(AltSet, MaxAlts)

\* strings.Contains(expectArry[i], "$count < ") || ... " > $count" ||
\* ... "$count > " || ... " < $count"
IsCount(alt) == alt.form \in CountForms

\* IsLessForward: only the form "$count < N" taken as a less-than relation
IsLessForward(alt) == alt.form = "$count < N"

\* strings.Contains(raw, "$count < ") || strings.Contains(raw, " > $count")
IsLess(alt) == alt.form \in {"$count < N", "N > $count"}

\* ntarget, err = strconv.Atoi(strings.TrimSpace(raw[...])): the operand
Target(alt) == alt.n

\* CountFailsStrict: the comparisons taken as strict bounds on the content
CountFailsStrict(alt, nres, ntarget) ==
  IF IsLess(alt) THEN nres >= ntarget ELSE nres <= ntarget

\* if nres > ntarget { err1 = ... } on the less-than branch,
\* if nres < ntarget { err1 = ... } on the other one
CountFails(alt, nres, ntarget) ==
  IF IsLess(alt) THEN nres > ntarget ELSE nres < ntarget

\* the loop of checkRslt over expectArry from index i on, with the locals
\* bOk and err1 ("" is errors.New("")); handled: errorHandle was called
RECURSIVE CheckLoop(_, _, _, _, _)
CheckLoop(expect, res, i, bOk, err1) ==
  IF i > Len(expect)
  THEN [err |-> err1, handled |-> FALSE]
  ELSE LET alt == expect[i] IN
    IF IsCount(alt)
    THEN LET nres == Atoi(TrimSpace(res)).n
             ntarget == Target(alt)
             e1 == IF CountFails(alt, nres, ntarget)
                   THEN (IF IsLess(alt) THEN "expect: $count <" ELSE "expect: $count >")
                   ELSE err1
         IN  IF e1 # ""
             THEN [err |-> e1, handled |-> TRUE]
             ELSE CheckLoop(expect, res, i + 1, bOk, e1)
    ELSE IF bOk
         THEN CheckLoop(expect, res, i + 1, bOk, err1)
         ELSE IF Contains(res, alt.text)
              THEN CheckLoop(expect, res, i + 1, TRUE, "")
              ELSE CheckLoop(expect, res, i + 1, FALSE, "expect: but res:")

\* checkRslt(g, res): "" is the nil return
checkRslt(expect, res) ==
  IF expect # <<>> THEN CheckLoop(expect, res, 1, FALSE, "")
  ELSE [err |-> "", handled |-> FALSE]

\* the item: expect, exec (the remediation command), timeout, execreceiver
TimeoutSet == {-1, 0, 1}
ExecSet == {"", "fix"}
ReceiverSet == {"", "r1,r2"}
ItemSet == [expect : ExpectSet, exec : ExecSet, timeout : TimeoutSet, execreceiver : ReceiverSet]

\* strings.Split(g.execreceiver, ",")
SplitReceivers(s) == IF s = "" THEN <<"">> ELSE <<"r1", "r2">>

\* RECEIVERS.RECEIVER_TYPE: the configured receivers
ConfiguredReceivers == {"r1", "r2"}

\* sendMsg for each element of receiverArry: a name that is not configured
\* reaches nobody
Notified(s) == SelectSeq(SplitReceivers(s), LAMBDA rc : rc \in ConfiguredReceivers)

NoItem == [expect |-> <<>>, exec |-> "", timeout |-> 0, execreceiver |-> ""]

NoChild == [st |-> "none", rd |-> "none", ech |-> FALSE, out |-> <<>>, tmr |-> "off"]

NoExec ==
  [pc |-> "idle", timeout |-> 0, raw |-> <<>>, xerr |-> "", cerr |-> "none", errCode |-> ""]

\* no command() in progress
LegacyIdle ==
  /\ g = NoItem
  /\ lx = NoExec
  /\ cp = NoChild
  /\ sent = <<>>
  /\ ran = FALSE

\* a worker has taken the item from the request channel and calls command()
\* with a non-empty input of type "cmd" that is not in fetchedInput.m
LegacyInit ==
  /\ g \in ItemSet
  /\ lx = [NoExec EXCEPT !.pc = "command"]
  /\ cp = NoChild
  /\ sent = <<>>
  /\ ran = FALSE

\* command() has sent the FetchedResult with this error
Finish(err) ==
  [lx EXCEPT !.pc = "done",
             !.errCode = IF err # "" THEN ErrorCodeFailure ELSE ErrorCodeSuccess]

\* fetchCmd: if g.timeout == 0 { timeout = G_TIMEOUT }
EffectiveTimeout(timeout) == IF timeout = 0 THEN G_TIMEOUT ELSE timeout

\* time.After(aTimeout): aTimeout is timeout seconds when timeout > 0 and
\* 1000000 hours otherwise, which no run lives to see
ArmTimer(timeout) == IF timeout > 0 THEN "armed" ELSE "off"

\* command -> fetchCmd -> exeCmd up to the select loop: the reader goroutine
\* is started, then cmd.Start(); a failed Start returns ("Runner: ...", err)
\* at once, whatever the timeout, and command sends the failed record
fetchCmd ==
  /\ lx.pc = "command"
  /\ \E started \in BOOLEAN :
       IF started
       THEN /\ lx' = [lx EXCEPT !.pc = "select", !.timeout = EffectiveTimeout(g.timeout)]
            /\ cp' = [NoChild EXCEPT !.st = "running", !.rd = "reading",
                                     !.tmr = ArmTimer(EffectiveTimeout(g.timeout))]
       ELSE /\ lx' = [Finish("Runner: start") EXCEPT !.xerr = "Runner: start",
                                                      !.timeout = EffectiveTimeout(g.timeout)]
            /\ cp' = cp
  /\ UNCHANGED <<chainVars, reqVars, batchVars, distVars, g, sent, ran>>

\* the child closes its stdout (on exit, or before): ioutil.ReadAll returns
\* in the reader goroutine, which puts a read error on errchan and then
\* blocks sending the output on resultchan
ChildStdoutEOF ==
  /\ cp.st = "running"
  /\ cp.rd = "reading"
  /\ \E out \in ContentSet, readErr \in BOOLEAN, exits \in BOOLEAN :
       cp' = [cp EXCEPT !.rd = "sending", !.out = out, !.ech = readErr,
                        !.st = IF exits THEN "exited" ELSE "running"]
  /\ UNCHANGED <<chainVars, reqVars, batchVars, distVars, g, lx, sent, ran>>

\* the child, having closed its stdout earlier, exits by itself
ChildExit ==
  /\ cp.st = "running"
  /\ cp.rd # "reading"
  /\ cp' = [cp EXCEPT !.st = "exited"]
  /\ UNCHANGED <<chainVars, reqVars, batchVars, distVars, g, lx, sent, ran>>

\* the timeout of the pending time.After elapses
TimerFire ==
  /\ cp.tmr = "armed"
  /\ cp' = [cp EXCEPT !.tmr = "fired"]
  /\ UNCHANGED <<chainVars, reqVars, batchVars, distVars, g, lx, sent, ran>>

\* case <-time.After(aTimeout): cmd.Process.Kill(); "Runner: timedout";
\* os.Exit(1) when timeout < 0; break loop
SelectTimeout ==
  /\ lx.pc = "select"
  /\ cp.tmr = "fired"
  /\ cp' = [cp EXCEPT !.st = IF @ = "running" THEN "killed" ELSE @, !.tmr = "off"]
  /\ lx' = [lx EXCEPT !.xerr = "Runner: timedout", !.raw = <<>>,
                      !.pc = IF lx.timeout < 0 THEN "exited" ELSE "wait"]
  /\ UNCHANGED <<chainVars, reqVars, batchVars, distVars, g, sent, ran>>

\* case err := <-errchan: "Runner: <err>"; os.Exit(1) when timeout < 0;
\* break loop
SelectErr ==
  /\ lx.pc = "select"
  /\ cp.ech
  /\ cp' = [cp EXCEPT !.ech = FALSE]
  /\ lx' = [lx EXCEPT !.xerr = "Runner: read", !.raw = <<>>,
                      !.pc = IF lx.timeout < 0 THEN "exited" ELSE "wait"]
  /\ UNCHANGED <<chainVars, reqVars, batchVars, distVars, g, sent, ran>>

\* case cmdresult := <-resultchan: a non-empty result is kept and the loop
\* is left; an empty one is dropped and the loop selects again, with a new
\* time.After
SelectResult ==
  /\ lx.pc = "select"
  /\ cp.rd = "sending"
  /\ IF cp.out # <<>>
     THEN /\ lx' = [lx EXCEPT !.raw = cp.out, !.pc = "wait"]
          /\ cp' = [cp EXCEPT !.rd = "sent"]
     ELSE /\ lx' = lx
          /\ cp' = [cp EXCEPT !.rd = "sent", !.tmr = ArmTimer(lx.timeout)]
  /\ UNCHANGED <<chainVars, reqVars, batchVars, distVars, g, sent, ran>>

\* cmd.Wait() returns once the child has ended; exeCmd returns (res.Raw, nil)
\* or (res.Raw, errors.New(res.Error)); on an error fetchCmd returns it and
\* command sends the failed record, otherwise fetchCmd goes on to checkRslt
WaitReturn ==
  /\ lx.pc = "wait"
  /\ cp.st \in {"exited", "killed"}
  /\ lx' = IF lx.xerr # "" THEN Finish(lx.xerr) ELSE [lx EXCEPT !.pc = "checkRslt"]
  /\ cp' = [cp EXCEPT !.tmr = "off", !.ech = FALSE, !.out = <<>>, !.rd = "sent"]
  /\ UNCHANGED <<chainVars, reqVars, batchVars, distVars, g, sent, ran>>

\* return doc, checkRslt(g, doc): a nil or a plain error return ends command
\* with the record; return errorHandle(g, err1) first calls sendMsg for every
\* receiver and, when g.exec is set, starts exeCmd(g.exec, g.timeout)
CheckRslt ==
  /\ lx.pc = "checkRslt"
  /\ LET chk == checkRslt(g.expect, lx.raw)
         cerr == IF chk.err = "" THEN "nil" ELSE chk.err
     IN  IF ~chk.handled
         THEN /\ lx' = [Finish(chk.err) EXCEPT !.cerr = cerr]
              /\ UNCHANGED <<sent, ran>>
         ELSE /\ sent' = Notified(g.execreceiver)
              /\ IF g.exec = ""
                 THEN /\ lx' = [Finish(chk.err) EXCEPT !.cerr = cerr]
                      /\ ran' = ran
                 ELSE /\ lx' = [lx EXCEPT !.pc = "remedy", !.cerr = cerr]
                      /\ ran' = TRUE
  /\ UNCHANGED <<chainVars, reqVars, batchVars, distVars, g, cp>>

\* errorHandle: exeCmd(g.exec, g.timeout) is over - it returned (its result
\* is logged and errorHandle returns err1), or it ended the process with
\* os.Exit(1) on a read error under timeout < 0
RemedyDone ==
  /\ lx.pc = "remedy"
  /\ \E exit \in BOOLEAN :
       /\ exit => g.timeout < 0
       /\ lx' = IF exit THEN [lx EXCEPT !.pc = "exited"] ELSE Finish(lx.cerr)
  /\ UNCHANGED <<chainVars, reqVars, batchVars, distVars, g, cp, sent, ran>>

command ==
  \/ fetchCmd \/ SelectTimeout \/ SelectErr \/ SelectResult
  \/ WaitReturn \/ CheckRslt \/ RemedyDone

Child == ChildStdoutEOF \/ ChildExit \/ TimerFire

LegacyNext == command \/ Child

(***************************************************************************)
(* The request surface: batch descriptors as texts, parseInputParams,      *)
(* parseConfigInput, getHandle / postHandle / makeResponse, and the task   *)
(* path generateTasks -> assignTaskToPod -> processAssignedTasks ->        *)
(* executeTask.  A text is a sequence of symbols: the brackets and fields  *)
(* of a JSON document, or their base64 characters (b = TRUE).              *)
(***************************************************************************)
Absent == "(absent)"

Keys == {"command", "expect", "id", "input", "name", "type"}

\* encoding/json writes the keys of a map in sorted order
KeyOrder == <<"command", "expect", "id", "input", "name", "type">>

Sym(k, v) == [b |-> FALSE, k |-> k, v |-> v]

EmptyItem == [k \in Keys |-> Absent]

\* an item of a descriptor: input, and the optional type, name and expect
ItemOf(input, type, name, expect) ==
  [k \in Keys |->
     CASE k = "input" -> input
       [] k = "type" -> type
       [] k = "name" -> name
       [] k = "expect" -> expect
       [] OTHER -> Absent]

\* the items of a request (input, type, name) and of the configuration
\* (with an expect), each field given or left out
RequestItems ==
  {ItemOf(i, t, n, Absent) :
     i \in {Absent, "x", "y"}, t \in {Absent, RequestTypeGet}, n \in {Absent, "n1"}}
ConfigItems ==
  {ItemOf(i, t, n, e) :
     i \in {Absent, "x", "y"}, t \in {Absent, RequestTypeGet}, n \in {Absent, "n1"},
     e \in {Absent, "a"}}

\* a valid batch: every item has an input
ValidBatch(X) == \A n \in 1..Len(X) : X[n]["input"] # Absent

\* {"k": "v", ...}: the object of one item
ItemText(it) ==
  LET present == SelectSeq(KeyOrder, LAMBDA k : it[k] # Absent)
  IN  <<Sym("{", "")>> \o [n \in 1..Len(present) |-> Sym(present[n], it[present[n]])]
                       \o <<Sym("}", "")>>

RECURSIVE ItemsText(_)
ItemsText(X) == IF X = <<>> THEN <<>> ELSE ItemText(Head(X)) \o ItemsText(Tail(X))

\* {"inputs": [ ... ]}: the document of a descriptor
JsonText(X) == <<Sym("[", "")>> \o ItemsText(X) \o <<Sym("]", "")>>

\* a document cut off before its end
Truncated(text) == SubSeq(text, 1, Len(text) - 1)

\* base64.StdEncoding.EncodeToString
Base64Encode(text) == [n \in 1..Len(text) |-> [text[n] EXCEPT !.b = TRUE]]

\* base64.StdEncoding.DecodeString: an error unless every character is of
\* the base64 alphabet
DecodeString(text) ==
  IF \A n \in 1..Len(text) : text[n].b
  THEN [err |-> FALSE, out |-> [n \in 1..Len(text) |-> [text[n] EXCEPT !.b = FALSE]]]
  ELSE [err |-> TRUE, out |-> <<>>]

\* the decoder of encoding/json over the items of a document, from symbol n
\* on: cur is the object being read (open), acc the objects read so far
RECURSIVE ScanItems(_, _, _, _, _)
ScanItems(text, n, cur, open, acc) ==
  IF n >= Len(text)
  THEN [err |-> open, items |-> IF open THEN <<>> ELSE acc]
  ELSE LET sym == text[n] IN
    IF sym.b THEN [err |-> TRUE, items |-> <<>>]
    ELSE IF sym.k = "{" /\ ~open THEN ScanItems(text, n + 1, EmptyItem, TRUE, acc)
    ELSE IF sym.k = "}" /\ open THEN ScanItems(text, n + 1, EmptyItem, FALSE, Append(acc, cur))
    ELSE IF sym.k \in Keys /\ open
         THEN ScanItems(text, n + 1, [cur EXCEPT ![sym.k] = sym.v], TRUE, acc)
    ELSE [err |-> TRUE, items |-> <<>>]

\* json.Unmarshal(text, &data): on an error data.Inputs stays empty
Unmarshal(text) ==
  IF Len(text) >= 2 /\ ~text[1].b /\ text[1].k = "[" /\ ~text[Len(text)].b /\ text[Len(text)].k = "]"
  THEN ScanItems(text, 2, EmptyItem, FALSE, <<>>)
  ELSE [err |-> TRUE, items |-> <<>>]

\* for _, item := range data.Inputs { if v, exists := item[key]; exists {
\* list = append(list, v) } }
Collect(items, key) ==
  LET present == SelectSeq(items, LAMBDA it : it[key] # Absent)
  IN  [n \in 1..Len(present) |-> present[n][key]]

Lists(items) ==
  [inputs |-> Collect(items, "input"), types |-> Collect(items, "type"),
   names |-> Collect(items, "name")]

\* parseInputParams: "Try base64 decode first", else "Try direct JSON unmarshal"
parseInputParams(paramStr) ==
  LET decoded == DecodeString(paramStr)
      data == IF ~decoded.err THEN Unmarshal(decoded.out) ELSE Unmarshal(paramStr)
  IN  Lists(data.items)

\* parseConfigInput: json.Unmarshal only; nil, nil, nil on an error
parseConfigInput(inputStr) == Lists(Unmarshal(inputStr).items)

NoRequest ==
  [pc |-> "idle", method |-> "", sType |-> "", params |-> <<>>, status |-> 0,
   tasks |-> <<>>, k |-> 0, taskData |-> <<>>, args |-> <<>>]

\* no request and no task path at work
RequestIdle ==
  /\ desc = <<>>
  /\ rq = NoRequest

\* the params a client sends for the descriptor X: its document, the base64
\* of it, a cut-off document, the base64 of that, or none
ParamTexts(X) ==
  {JsonText(X), Base64Encode(JsonText(X)), Truncated(JsonText(X)),
   Base64Encode(Truncated(JsonText(X))), <<>>}

\* a request has been routed to its handler: GET /mcall/{type}/{params}
\* (both path segments are there), or POST /mcall with a form
RequestInit ==
  /\ desc \in SeqsUpTo(RequestItems, MaxItems)
  /\ \E method \in {"GET", "POST"}, sType \in {"", RequestTypeCmd}, params \in ParamTexts(desc) :
       /\ method = "GET" => (sType # "" /\ params # <<>>)
       /\ rq = [NoRequest EXCEPT !.pc = "recv", !.method = method, !.sType = sType,
                                 !.params = params]

\* makeResponse -> execCmd(inputs, types, names): NewPipeline, Run(workerNum),
\* NewFetchedInput
StartExec(lists) ==
  /\ expects' = <<>>
  /\ inputs' = lists.inputs
  /\ types' = lists.types
  /\ bpc' = "submit"
  /\ bi' = 0
  /\ request' = <<>>
  /\ done' = FALSE
  /\ wk' = IdleWorkers
  /\ memo' = NewFetchedInput
  /\ resch' = [i \in 1..(MaxBatch + 1) |-> <<>>]
  /\ results' = <<>>
  /\ probeCount' = [x \in InputSet |-> 0]

\* getHandle: parseInputParams(paramStr), then makeResponse
getHandle ==
  /\ rq.pc = "recv"
  /\ rq.method = "GET"
  /\ StartExec(parseInputParams(rq.params))
  /\ rq' = [rq EXCEPT !.pc = "exec"]
  /\ UNCHANGED <<chainVars, legacyVars, distVars, desc>>

\* postHandle: http.Error(w, ..., http.StatusBadRequest) when ParseForm
\* fails or type or params is empty; else parseInputParams, then makeResponse
postHandle ==
  /\ rq.pc = "recv"
  /\ rq.method = "POST"
  /\ \E formOk \in BOOLEAN :
       IF ~formOk \/ rq.sType = "" \/ rq.params = <<>>
       THEN /\ rq' = [rq EXCEPT !.pc = "responded", !.status = 400]
            /\ UNCHANGED batchVars
       ELSE /\ StartExec(parseInputParams(rq.params))
            /\ rq' = [rq EXCEPT !.pc = "exec"]
  /\ UNCHANGED <<chainVars, legacyVars, distVars, desc>>

\* execCmd has returned: makeResponse marshals the results and the handler
\* writes them with w.Write, without WriteHeader - status 200
makeResponse ==
  /\ rq.pc = "exec"
  /\ bpc = "done"
  /\ rq' = [rq EXCEPT !.pc = "responded", !.status = 200]
  /\ UNCHANGED <<chainVars, legacyVars, distVars, batchVars, desc>>

RequestNext == getHandle \/ postHandle \/ makeResponse \/ BatchNext

\* fmt.Sprintf("task-%d", i+1)
TaskId(i) == <<"task-1", "task-2", "task-3", "task-4">>[i]

\* app.subject
Subject == "subject"

\* generateTasks for the configured input: no task for an empty input, else
\* one map (id, command, type, name) per parsed input
TasksOf(inputStr) ==
  IF inputStr = <<>> THEN <<>>
  ELSE LET l == parseConfigInput(inputStr) IN
    [i \in 1..Len(l.inputs) |->
       [k \in Keys |->
          CASE k = "id" -> TaskId(i)
            [] k = "command" -> l.inputs[i]
            [] k = "type" -> IF i <= Len(l.types) THEN l.types[i] ELSE RequestTypeCmd
            [] k = "name" -> IF i <= Len(l.names) THEN l.names[i] ELSE Subject
            [] OTHER -> Absent]]

\* taskData, err := json.Marshal(task)
Marshal(task) == ItemText(task)

\* json.Unmarshal([]byte(taskData), &task)
UnmarshalTask(taskData) ==
  LET r == ScanItems(<<Sym("[", "")>> \o taskData \o <<Sym("]", "")>>, 2, EmptyItem, FALSE, <<>>)
  IN  IF r.err \/ Len(r.items) # 1 THEN [err |-> TRUE, task |-> EmptyItem]
      ELSE [err |-> FALSE, task |-> r.items[1]]

\* executeTask: inputs, types, names of the one-item batch given to execCmd
TaskArgs(task) ==
  [inputs |-> <<task["command"]>>, types |-> <<task["type"]>>, names |-> <<task["name"]>>]

\* the configured request input: the document of a descriptor
ConfigInit ==
  /\ desc \in SeqsUpTo(ConfigItems, MaxItems)
  /\ rq = [NoRequest EXCEPT !.pc = "config", !.params = JsonText(desc)]

\* distributeTasks: tasks := app.generateTasks()
GenerateTasks ==
  /\ rq.pc = "config"
  /\ LET tasks == TasksOf(rq.params)
     IN  rq' = [rq EXCEPT !.tasks = tasks, !.k = 1,
                          !.pc = IF tasks = <<>> THEN "distributed" ELSE "assign"]
  /\ UNCHANGED <<chainVars, legacyVars, distVars, batchVars, desc>>

\* assignTaskToPod: the task-data annotation of the ConfigMap of task k
AssignToPod ==
  /\ rq.pc = "assign"
  /\ rq' = [rq EXCEPT !.taskData = Marshal(rq.tasks[rq.k]), !.pc = "claim"]
  /\ UNCHANGED <<chainVars, legacyVars, distVars, batchVars, desc>>

\* processAssignedTasks on the follower: the task-data is parsed and
\* executeTask calls execCmd with the fields of the task
ProcessClaim ==
  /\ rq.pc = "claim"
  /\ LET parsed == UnmarshalTask(rq.taskData) IN
       IF parsed.err
       THEN /\ rq' = [rq EXCEPT !.pc = "executed"]
            /\ UNCHANGED batchVars
       ELSE /\ rq' = [rq EXCEPT !.pc = "exec", !.args = TaskArgs(parsed.task)]
            /\ StartExec(TaskArgs(parsed.task))
  /\ UNCHANGED <<chainVars, legacyVars, distVars, desc>>

\* execCmd has returned to executeTask, which logs the results
ExecuteTaskReturn ==
  /\ rq.pc = "exec"
  /\ bpc = "done"
  /\ rq' = [rq EXCEPT !.pc = "executed"]
  /\ UNCHANGED <<chainVars, legacyVars, distVars, batchVars, desc>>

\* the loop of distributeTasks goes on with the next task
NextTask ==
  /\ rq.pc = "executed"
  /\ rq' = [rq EXCEPT !.k = @ + 1,
                      !.pc = IF rq.k = Len(rq.tasks) THEN "distributed" ELSE "assign"]
  /\ UNCHANGED <<chainVars, legacyVars, distVars, batchVars, desc>>

ConfigNext ==
  \/ GenerateTasks \/ AssignToPod \/ ProcessClaim \/ ExecuteTaskReturn \/ NextTask
  \/ BatchNext

(***************************************************************************)
(* The web process of src/LEADER_ELECTION.md: getHandle / postHandle call  *)
(* getInput, which fills the package-level lists, and makeResponse ->      *)
(* execCmd, which runs the chained pipeline: command() of one item hands   *)
(* the next unfetched input to the pool from parseContent while its own    *)
(* result goes to the collector on the shared result channel.  Requests    *)
(* are taken one after the other.                                          *)
(***************************************************************************)
ChainWorkers == 1..WORKERNUM

NoGlobals ==
  [INPUTS |-> <<>>, STYPES |-> <<>>, NAMES |-> <<>>, EXPECTS |-> <<>>,
   EXECS |-> <<>>, EXECRECEIVERS |-> <<>>, TIMEOUTS |-> <<>>]

\* an element of data.Inputs with input, type and name only; has is the set
\* of the optional keys the map holds
BareItem(input, type) ==
  [input |-> input, type |-> type, name |-> "n", has |-> {},
   expect |-> "", exec |-> "", receivers |-> "", timeout |-> <<>>]

\* an element with expect, exec, receivers and timeout too
FullItem(input, type) ==
  [input |-> input, type |-> type, name |-> "n",
   has |-> {"expect", "exec", "receivers", "timeout"},
   expect |-> "a", exec |-> "fix", receivers |-> "r1,r2", timeout |-> <<"5">>]

DocItems ==
  {BareItem(i, t) : i \in {"x", "y"}, t \in TypeSet}
    \cup {FullItem(i, t) : i \in {"x", "y"}, t \in TypeSet}

\* data.Inputs of a request that can be unmarshalled: one item or more
Documents == UNION {[1..k -> DocItems] : k \in 1..MaxItems}

\* the body of the loop of getInput for one element
AppendItem(G, it) ==
  [G EXCEPT
     !.INPUTS = Append(@, it.input),
     !.STYPES = Append(@, it.type),
     !.NAMES = Append(@, it.name),
     !.EXPECTS = Append(@, IF "expect" \in it.has THEN it.expect ELSE ""),
     !.EXECS = Append(@, IF "exec" \in it.has THEN it.exec ELSE ""),
     !.EXECRECEIVERS = Append(@, IF "receivers" \in it.has THEN it.receivers ELSE ""),
     !.TIMEOUTS = Append(@, IF "timeout" \in it.has THEN Atoi(it.timeout).n ELSE G_TIMEOUT)]

RECURSIVE AppendItems(_, _)
AppendItems(G, items) ==
  IF items = <<>> THEN G ELSE AppendItems(AppendItem(G, Head(items)), Tail(items))

\* getInput after a successful Unmarshal: INPUTS = make([]string, 0) and
\* NAMES = make([]string, 0), then the loop appends to all seven lists
getInput(G, items) == AppendItems([G EXCEPT !.INPUTS = <<>>, !.NAMES = <<>>], items)

\* the CallFetch made for INPUTS[n] (n counted from 1): execCmd takes
\* STYPES[0], EXPECTS[0], ... for the first one, parseContent takes
\* STYPES[n], NAMES[n] and, where the list is long enough, EXPECTS[n],
\* EXECS[n], TIMEOUTS[n], EXECRECEIVERS[n]
CallAt(G, n) ==
  [n |-> n, input |-> G.INPUTS[n], sType |-> G.STYPES[n], name |-> G.NAMES[n],
   expect |-> IF Len(G.EXPECTS) >= n THEN G.EXPECTS[n] ELSE "",
   exec |-> IF Len(G.EXECS) >= n THEN G.EXECS[n] ELSE "",
   timeout |-> IF Len(G.TIMEOUTS) >= n THEN G.TIMEOUTS[n] ELSE 0,
   execreceiver |-> IF Len(G.EXECRECEIVERS) >= n THEN G.EXECRECEIVERS[n] ELSE ""]

NoChainCall ==
  [n |-> 0, input |-> "", sType |-> "", name |-> "", expect |-> "", exec |-> "",
   timeout |-> 0, execreceiver |-> ""]

NoChainWorker == [st |-> "none", call |-> NoChainCall, err |-> ""]

\* p.Run(): WORKERNUM goroutines in `for r := range p.request`
RangeWorkers == [w \in ChainWorkers |-> [NoChainWorker EXCEPT !.st = "range"]]

NoParse == [st |-> "none", call |-> NoChainCall]

NoChain ==
  [pc |-> "idle", cur |-> <<>>, nreq |-> 0, m |-> {}, count |-> 0, got |-> <<>>,
   pg |-> NoParse]

\* the process before its first request
ChainIdle ==
  /\ GL = NoGlobals
  /\ cx = NoChain
  /\ cw = [w \in ChainWorkers |-> NoChainWorker]

\* getHandle / postHandle: getInput(paramStr), then makeResponse reads
\* INPUTS[0] (a panic when the list is empty, recovered by net/http) and
\* calls execCmd, which makes a new pipeline and a new FetchedInput; a
\* parameter that cannot be unmarshalled is logged and leaves the lists alone
ChainRequest ==
  /\ cx.pc = "idle"
  /\ cx.nreq < MaxRequests
  /\ \E items \in Documents, ok \in BOOLEAN :
       LET G == IF ok THEN getInput(GL, items) ELSE GL IN
         /\ GL' = G
         /\ cx' = [NoChain EXCEPT !.pc = IF G.INPUTS = <<>> THEN "idle" ELSE "execCmd",
                                  !.cur = IF ok THEN items ELSE <<>>,
                                  !.nreq = cx.nreq + 1]
         /\ cw' = IF G.INPUTS = <<>> THEN cw ELSE RangeWorkers
  /\ UNCHANGED <<reqVars, legacyVars, batchVars, distVars>>

\* execCmd: p.request <- call, the CallFetch of INPUTS[0]; the channel is
\* unbuffered, a worker receives it
ChainSend(w) ==
  /\ cx.pc = "execCmd"
  /\ cw[w].st = "range"
  /\ cw' = [cw EXCEPT ![w] = [st |-> "command", call |-> CallAt(GL, 1), err |-> ""]]
  /\ cx' = [cx EXCEPT !.pc = "collect"]
  /\ UNCHANGED <<reqVars, legacyVars, batchVars, distVars, GL>>

\* command(): under the lock of fetchedInput, an input already in m ends the
\* call with nothing sent; otherwise fetchCmd or fetchHtml is started (the
\* inputs of the model are not empty); parseContent holds the lock while it
\* sends a request
ChainCommand(w) ==
  /\ cw[w].st = "command"
  /\ cx.pg.st # "send"
  /\ cw' = [cw EXCEPT ![w] = IF cw[w].call.input \in cx.m
                             THEN [NoChainWorker EXCEPT !.st = "range"]
                             ELSE [@ EXCEPT !.st = "fetch"]]
  /\ UNCHANGED <<reqVars, legacyVars, batchVars, distVars, GL, cx>>

\* the probe has returned (doc, err): m[g.input] = err under the lock, then
\* content := <-g.parseContent(doc), whose goroutine goes on by itself
ChainFetched(w) ==
  /\ cw[w].st = "fetch"
  /\ cx.pg.st = "none"
  /\ \E failed \in BOOLEAN :
       cw' = [cw EXCEPT ![w].st = "result",
                        ![w].err = IF failed THEN ErrorCodeFailure ELSE ErrorCodeSuccess]
  /\ cx' = [cx EXCEPT !.m = @ \cup {cw[w].call.input}, !.pg = [NoParse EXCEPT !.st = "scan"]]
  /\ UNCHANGED <<reqVars, legacyVars, batchVars, distVars, GL>>

\* the indexes of the inputs that are not in fetchedInput.m
Unfetched == {n \in 1..Len(GL.INPUTS) : GL.INPUTS[n] \notin cx.m}

\* the goroutine of parseContent: under the lock, the first INPUTS[n] that is
\* not in m is made a CallFetch for g.request; with none left it ends
parseContentScan ==
  /\ cx.pg.st = "scan"
  /\ cx' = [cx EXCEPT !.pg = IF Unfetched = {} THEN NoParse
                             ELSE [st |-> "send",
                                   call |-> CallAt(GL, CHOOSE n \in Unfetched :
                                                         \A k \in Unfetched : n <= k)]]
  /\ UNCHANGED <<reqVars, legacyVars, batchVars, distVars, GL, cw>>

\* g.request: g.p.request <- &CallFetch{...}; a worker waiting in its range
\* loop receives it (done is not closed: the collector is still short of
\* len(INPUTS) records) and calls command()
parseContentRequest(w) ==
  /\ cx.pg.st = "send"
  /\ cw[w].st = "range"
  /\ cw' = [cw EXCEPT ![w] = [st |-> "command", call |-> cx.pg.call, err |-> ""]]
  /\ cx' = [cx EXCEPT !.pg = NoParse]
  /\ UNCHANGED <<reqVars, legacyVars, batchVars, distVars, GL>>

\* g.result <- FetchedResult{...} meets `for a := range call.result` of
\* execCmd: the record is appended; with count >= len(INPUTS) done is closed
\* and execCmd returns; the worker goes back to its range loop
ChainCollect(w) ==
  /\ cx.pc = "collect"
  /\ cw[w].st = "result"
  /\ cx' = [cx EXCEPT !.count = @ + 1,
                      !.got = Append(@, [n |-> cw[w].call.n, input |-> cw[w].call.input,
                                         errorCode |-> cw[w].err]),
                      !.pc = IF cx.count + 1 >= Len(GL.INPUTS) THEN "idle" ELSE "collect"]
  /\ cw' = [cw EXCEPT ![w] = [NoChainWorker EXCEPT !.st = "range"]]
  /\ UNCHANGED <<reqVars, legacyVars, batchVars, distVars, GL>>

ChainWorker(w) ==
  \/ ChainSend(w) \/ ChainCommand(w) \/ ChainFetched(w)
  \/ parseContentRequest(w) \/ ChainCollect(w)

ChainNext == ChainRequest \/ parseContentScan \/ \E w \in ChainWorkers : ChainWorker(w)

vars == <<batchVars, distVars, legacyVars, reqVars, chainVars>>

Init == BatchIdle /\ DistInit /\ LegacyIdle /\ RequestIdle /\ ChainIdle

Spec == Init /\ [][Next]_vars

\* the 30-second ticker of runAsWorker keeps firing while the process runs,
\* executeTask returns (every probe is bounded by DefaultTimeoutDuration),
\* and the List and Update calls of the store succeed again and again
SpecWork ==
  /\ Init
  /\ [][Next]_vars
  /\ \A r \in Pods : WF_vars(WorkerTick(r)) /\ SF_vars(ExecDone(r, TRUE))

\* Go schedules every runnable goroutine: the orchestrator and each worker
\* take a step that stays enabled.
InitBatch == BatchInit /\ DistInit /\ LegacyIdle /\ RequestIdle /\ ChainIdle

\* a request whose items carry expect fields: parseInputParams and
\* parseConfigInput keep only input, type and name, so execCmd runs the
\* same batch whatever the expects are
RequestExpects == {<<>>, <<[form |-> "substring", text |-> <<"a">>, n |-> 0]>>}

BatchInitExpect ==
  /\ inputs \in SeqsUpTo(InputSet, MaxBatch)
  /\ expects \in [1..Len(inputs) -> RequestExpects]
  /\ types \in SeqsUpTo(TypeSet, Len(inputs))
  /\ bpc = "submit"
  /\ bi = 0
  /\ request = <<>>
  /\ done = FALSE
  /\ wk = IdleWorkers
  /\ memo = NewFetchedInput
  /\ resch = [i \in 1..(MaxBatch + 1) |-> <<>>]
  /\ results = <<>>
  /\ probeCount = [x \in InputSet |-> 0]

InitExpect == BatchInitExpect /\ DistInit /\ LegacyIdle /\ RequestIdle /\ ChainIdle

SpecExpect == InitExpect /\ [][BatchNext]_vars

InitLegacy == BatchIdle /\ DistInit /\ LegacyInit /\ RequestIdle /\ ChainIdle

SpecLegacy == InitLegacy /\ [][LegacyNext]_vars

InitPipeline == PipelineInit /\ DistInit /\ LegacyIdle /\ RequestIdle /\ ChainIdle

\* the caller goes on to its next statement, and Go schedules every worker
\* goroutine that can take a step
SpecPipeline ==
  /\ InitPipeline
  /\ [][PipelineNext]_vars
  /\ WF_vars(StopWait)
  /\ \A w \in Workers : WF_vars(Worker(w))

InitRequest == BatchIdle /\ DistInit /\ LegacyIdle /\ RequestInit /\ ChainIdle

SpecRequest == InitRequest /\ [][RequestNext]_vars

InitConfig == BatchIdle /\ DistInit /\ LegacyIdle /\ ConfigInit /\ ChainIdle

SpecConfig == InitConfig /\ [][ConfigNext]_vars

SpecChain == Init /\ [][ChainNext]_vars

SpecBatch ==
  /\ InitBatch
  /\ [][BatchNext]_vars
  /\ WF_vars(execCmd)
  /\ \A w \in Workers : WF_vars(Worker(w))

(***************************************************************************)
(* Claims about the batch orchestrator, checked under SpecBatch            *)
(***************************************************************************)
HasDuplicate == \E i, j \in 1..Len(inputs) : i < j /\ inputs[i] = inputs[j]

EchoesInputs ==
  /\ Len(results) = Len(inputs)
  /\ \A i \in 1..Len(inputs) : results[i].input = inputs[i]

\* C1: for every batch of N items handed to execCmd exactly N ResultRecords
\* are produced, in submission order, the i-th echoing the i-th input: once
\* neither execCmd nor any worker can take a further step, results holds
\* one record per submitted item, in order.
C1_NRecordsInOrder == (~ENABLED BatchNext) => EchoesInputs

\* C2: a batch in which the same input occurs more than once still
\* completes: execCmd eventually returns one ResultRecord per submission
\* (every started probe terminates: ExecuteFinish is weakly fair).
C2_DuplicateBatchCompletes ==
  HasDuplicate => <>(bpc = "done" /\ Len(results) = Len(inputs))

\* C3: within one batch (one FetchedInput memo) the probe for a given input
\* string is started at most once, however many items carry that input and
\* whichever workers pick them up.
C3_ProbeAtMostOnce == \A x \in InputSet : probeCount[x] <= 1

\* a second item with the same non-empty input was picked up by a worker and
\* short-circuited by the memo, after the first one's probe ran
C3_Witness ==
  \E i, j \in 1..Len(inputs) :
    /\ i < j
    /\ inputs[i] = inputs[j]
    /\ inputs[i] # ""
    /\ bi = j
    /\ bpc = "wait"
    /\ request = <<>>
    /\ \A w \in Workers : wk[w].st = "idle"
    /\ probeCount[inputs[i]] = 1

(***************************************************************************)
(* Claims about the distributed overlay, checked under Spec                *)
(***************************************************************************)
\* runAsLeader is running with a live context
LeaderActive(r) == ld[r].pc \in {"start", "round", "wait"} /\ ld[r].ctx = "live"

\* this step of replica r is one call of assignTaskToPod for task ld[r].k
AssignStep(r) == ld[r].pc = "round" /\ ld'[r].k = ld[r].k + 1

C5_ResumesCandidacy ==
  \A r \in Pods :
    proc[r] # "init" =>
      /\ proc[r] = "up"
      /\ le[r] \in {"acquiring", "leading", "stopped"}
      /\ fw[r].pc # "none"

\* C6: every ClaimRecord id produced by assignTaskToPod is unique per
\* emission: the id computed by a call is never the id an earlier call gave
\* to a ClaimRecord.
C6_UniqueIds ==
  [][\A r \in Pods :
       AssignStep(r) =>
         TaskName(PickWorker(ld[r].workerPods, ld[r].k), now) \notin StoreNames]_vars

\* C7: in a round with follower list F and task list T, the claim for task k
\* is created with assigned-to = F[k mod |F|] (k 0-based) and task-data = that
\* task; whether the create succeeds or fails the loop goes on to the next
\* task, until every task has been handled.
C7_RoundRobin ==
  [][\A r \in Pods :
       AssignStep(r) =>
         LET F == ld[r].workerPods
             k == ld[r].k
         IN  /\ F # <<>>
             /\ k \in 1..NumTasks
             /\ \A c \in store' \ store :
                  /\ c.assignedTo = F[((k - 1) % Len(F)) + 1]
                  /\ c.taskData = generateTasks[k]
             /\ store \subseteq store'
             /\ ld'[r].pc = IF k < NumTasks THEN "round" ELSE "wait"]_vars

\* a round is over in which the create for the first task failed and the
\* second task was still assigned, to the second follower
C7_Witness ==
  \E r \in Pods :
    /\ ld[r].pc = "wait"
    /\ Len(ld[r].workerPods) >= 2
    /\ TaskName(ld[r].workerPods[1], ld[r].at) \notin StoreNames
    /\ \E c \in store :
         /\ c.name = TaskName(ld[r].workerPods[2], ld[r].at)
         /\ c.assignedTo = ld[r].workerPods[2]
         /\ c.taskData = generateTasks[2]

\* C8: a replica that currently holds the lease never executes a task.
C8_LeaderNeverExecutes == \A r \in Pods : le[r] = "leading" => fw[r].pc # "exec"

\* C9: at any time at most one replica is executing a given task.
C9_OneExecutorPerTask ==
  \A r1, r2 \in Pods :
    (r1 # r2 /\ fw[r1].pc = "exec" /\ fw[r2].pc = "exec") =>
      Head(fw[r1].items).taskData.id # Head(fw[r2].items).taskData.id

\* C10: each ClaimRecord whose processed annotation is "true" has
\* processed-by equal to its assigned-to label, and a follower holds and
\* executes only claims addressed to its own identity.
C10_ProcessedByAssignee ==
  /\ \A c \in store : c.processed => c.processedBy = c.assignedTo
  /\ \A r \in Pods : \A n \in 1..Len(fw[r].items) : fw[r].items[n].assignedTo = Identity(r)

\* one follower has marked its claim while a claim of another follower is
\* still unprocessed
C10_Witness ==
  \E c, d \in store :
    /\ c.processed
    /\ ~d.processed
    /\ d.assignedTo # c.assignedTo

\* the claim with this name exists in the store, is addressed to r and its
\* processed annotation is still not "true" / is "true"
Pending(r, t) ==
  \E c \in store : c.name = TaskName(Identity(r), t) /\ c.assignedTo = Identity(r) /\ ~c.processed

Processed(r, t) ==
  \E c \in store : c.name = TaskName(Identity(r), t) /\ c.processed

\* C11: every ClaimRecord addressed to a replica whose worker loop keeps
\* running is eventually marked processed = true, provided the List and
\* Update calls of the store eventually succeed (SpecWork): from some point
\* on no claim addressed to a running replica is left unprocessed (the
\* leader of a behaviour creates claims finitely often).
C11_ClaimsEventuallyProcessed ==
  <>[](\A r \in Pods : \A t \in 0..MaxTime : Pending(r, t) => proc[r] # "up")

\* a claim was created for a follower and that follower, still running, has
\* marked it processed
C11_Witness ==
  \E r \in Pods : \E t \in 0..MaxTime :
    /\ Processed(r, t)
    /\ proc[r] = "up"
    /\ le[r] = "acquiring"
    /\ fw[r].pc = "wait"

\* C12: a claim whose processed annotation is "true" is skipped by every
\* later tick: no worker starts executing it again, and it stays in the
\* store with the annotation "true".
C12_ProcessedSkipped ==
  [][\A c \in store :
       c.processed =>
         /\ \E d \in store' : d.name = c.name /\ d.processed
         /\ \A r \in Pods :
              (fw'[r].pc = "exec" /\ fw'[r] # fw[r]) => Head(fw'[r].items).name # c.name]_vars

\* a later tick of r skipped its processed claim (the later one in listing
\* order) and is executing the earlier one, whose update had failed
C12_Witness ==
  \E r \in Pods : \E c, d \in store :
    /\ c.assignedTo = Identity(r) /\ d.assignedTo = Identity(r)
    /\ d.name = TaskName(Identity(r), 0) /\ ~d.processed
    /\ c.name = TaskName(Identity(r), 1) /\ c.processed
    /\ fw[r].pc = "exec"
    /\ Head(fw[r].items).name = d.name

\* C13: within one tick a failed executeTask or a failed Update does not
\* abort the tick - the next unprocessed claim of the listing is handled
\* next - and after a failed listing or tick the worker loop of a running
\* replica is still there to tick again.
C13_TickNotAborted ==
  [][\A r \in Pods :
       /\ (fw[r].pc = "exec" /\ fw'[r] # fw[r] /\ proc'[r] = "up") =>
            IF Len(fw[r].items) > 1
            THEN fw'[r].pc = "exec" /\ fw'[r].items = Tail(fw[r].items)
            ELSE fw'[r].pc = "wait"
       /\ proc'[r] = "up" => fw'[r].pc \in {"wait", "exec"}]_vars

\* the Update of the first listed claim failed (it is still unprocessed) and
\* the worker is executing the second claim of the same listing
C13_Witness ==
  \E r \in Pods : \E c, d \in store :
    /\ c.assignedTo = Identity(r) /\ d.assignedTo = Identity(r)
    /\ d.name = TaskName(Identity(r), 0) /\ ~d.processed
    /\ c.name = TaskName(Identity(r), 1) /\ ~c.processed
    /\ fw[r].pc = "exec"
    /\ fw[r].items = <<c>>

(***************************************************************************)
(* Claims about the expectation evaluator and the shell probe of           *)
(* src/LEADER_ELECTION.md, checked under SpecLegacy                        *)
(***************************************************************************)
\* an alternative matches the content: a literal when the content contains
\* it, "$count < N" / "N > $count" unless the content exceeds N,
\* "$count > N" / "N < $count" unless the content is below N
AltMatches(alt, res) ==
  LET n == Atoi(TrimSpace(res)).n IN
    CASE alt.form = "substring" -> Contains(res, alt.text)
      [] alt.form \in {"$count < N", "N > $count"} -> ~(n > alt.n)
      [] alt.form \in {"$count > N", "N < $count"} -> ~(n < alt.n)

Satisfies(expect, res) ==
  expect = <<>> \/ \E n \in 1..Len(expect) : AltMatches(expect[n], res)

\* C14: checkRslt returns nil if and only if at least one alternative of the
\* expect matches the content, whatever the order and kind of the other
\* alternatives.
C14_AnyAlternativePasses ==
  lx.cerr # "none" => (lx.cerr = "nil" <=> Satisfies(g.expect, lx.raw))

\* C15: for an expect made of one count alternative and an integer content,
\* "$count < N" and "N > $count" fail when the content is greater than N and
\* pass when it is less; "$count > N" and "N < $count" fail when the content
\* is less than N and pass when it is greater.
C15_CountDirection ==
  (/\ lx.cerr # "none"
   /\ Len(g.expect) = 1
   /\ g.expect[1].form \in CountForms
   /\ ~Atoi(TrimSpace(lx.raw)).err) =>
    LET n == Atoi(TrimSpace(lx.raw)).n
        N == g.expect[1].n
        passes == lx.cerr = "nil"
    IN  IF g.expect[1].form \in {"$count < N", "N > $count"}
        THEN (n > N => ~passes) /\ (n < N => passes)
        ELSE (n < N => ~passes) /\ (n > N => passes)

\* "N > $count" was evaluated against an integer content above N and failed
C15_Witness ==
  /\ lx.pc = "done"
  /\ Len(g.expect) = 1
  /\ g.expect[1].form = "N > $count"
  /\ ~Atoi(TrimSpace(lx.raw)).err
  /\ Atoi(TrimSpace(lx.raw)).n > g.expect[1].n
  /\ lx.cerr \notin {"none", "nil"}
  /\ lx.errCode = ErrorCodeFailure

\* C16: whenever the expectation evaluation of an item has failed and the
\* failure has been returned, every named receiver has been notified and the
\* remediation command, when one is set, has been run.
C16_FailureHandled ==
  (lx.pc = "done" /\ lx.cerr \notin {"none", "nil"}) =>
    /\ sent = Notified(g.execreceiver)
    /\ g.exec # "" => ran

\* C19: a shell probe whose child has not finished when its timeout fires is
\* killed and exeCmd returns a timeout error: while the timeout has fired and
\* the child is still running exeCmd is at the select that kills it, and
\* after a kill the error of exeCmd is the timeout error.
C19_TimeoutKills ==
  /\ (cp.tmr = "fired" /\ cp.st = "running") => lx.pc = "select"
  /\ (cp.st = "killed" /\ lx.pc = "done") => lx.xerr = "Runner: timedout"

\* C20: with a per-item timeout of -1 no failure is returned as a failed
\* ResultRecord: the record command() sends for such an item is a success
\* (any failure has ended the process instead).
C20_SelfDestruct ==
  (g.timeout = -1 /\ lx.pc = "done") => lx.errCode = ErrorCodeSuccess

(***************************************************************************)
(* Claims about CallFetch.Execute and the expect of an item, checked under *)
(* SpecExpect                                                              *)
(***************************************************************************)
\* this step is the end of an Execute call of worker w whose probe ran
ExecuteEnds(w) == wk[w].st \in {"fetchCmd", "fetchHTTP"} /\ wk'[w].st = "idle"

\* the FetchedResult that step has put on the result channel of item i
SentResult(i) == resch'[i][Len(resch'[i])]

\* C17: CallFetch.Execute returns a non-nil error when the probe output does
\* not satisfy the item's expect, and nil when the expectation is satisfied
\* or the expect is empty (for a probe that returned without error).
C17_ExecuteReportsExpect ==
  [][\A w \in Workers :
       (ExecuteEnds(w) /\ SentResult(wk[w].call.idx).errorCode = ErrorCodeSuccess) =>
         (wk'[w].ret = "nil" <=>
            Satisfies(expects[wk[w].call.idx], SentResult(wk[w].call.idx).content))]_vars

\* C18: every ResultRecord has error_code "0" or "-1", and the record of an
\* item that was probed (a non-empty input) has "0" only when the probe
\* returned without error and the expectation, if any, passed.
C18_ErrorCodeMeansPassed ==
  \A i \in 1..Len(results) :
    /\ results[i].errorCode \in {ErrorCodeSuccess, ErrorCodeFailure}
    /\ (inputs[i] # "" /\ results[i].errorCode = ErrorCodeSuccess) =>
         Satisfies(expects[i], results[i].result)

(***************************************************************************)
(* Further claims about the leader role, checked under Spec                *)
(***************************************************************************)
\* this step of replica r begins a round that goes on to assign tasks
RoundStarts(r) == ld[r].pc # "round" /\ ld'[r].pc = "round"

\* C24: runAsLeader begins its first round at once on becoming leader,
\* without waiting for a tick; every later round begins on a tick, after
\* time has passed since the previous round; and once the leader context is
\* cancelled no round begins and no ClaimRecord is created any more.
C24_LeaderRounds ==
  [][\A r \in Pods :
       /\ (ld[r].pc = "start" /\ Cardinality(store) + NumTasks <= MaxClaims) =>
            ENABLED RoundBegin(r)
       /\ RoundStarts(r) =>
            /\ ld[r].ctx = "live"
            /\ ld[r].pc = "start" \/ (ld[r].pc = "wait" /\ now > ld[r].at)
       /\ (AssignStep(r) /\ ld[r].ctx = "cancelled") => store' = store]_vars

\* the same leader, having emitted a round at time 0, has begun its next
\* round on the tick at time 1
C24_Witness ==
  \E r \in Pods :
    /\ le[r] = "leading"
    /\ \A q \in Pods : proc[q] # "exited"
    /\ ld[r].pc = "round"
    /\ ld[r].at = 1
    /\ \E c \in store : \E q \in Pods : c.name = TaskName(Identity(q), 0)

\* this step of replica r is the pod listing of distributeTasks
ListStep(r) == ld[r].pc \in {"start", "wait"} /\ ld'[r].pc \in {"round", "wait"} /\ ld'[r] # ld[r]

\* C25: the follower set of a round holds only pods labelled project=mcall
\* that were Running when listed, and never the leader; every ClaimRecord a
\* round creates is addressed to a member of its follower set, so never to
\* the replica that created it; with no followers the round assigns nothing.
C25_FollowerSet ==
  [][/\ \/ {c.name : c \in store'} \subseteq StoreNames
        \/ \E q \in Pods : AssignStep(q) /\ ld[q].workerPods # <<>>
     /\ \A r \in Pods :
       /\ ListStep(r) =>
            /\ \A n \in 1..Len(ld'[r].workerPods) :
                 LET p == ld'[r].workerPods[n]
                 IN  Labelled(p) /\ Phase(p) = "Running" /\ p # Identity(r)
            /\ ld'[r].workerPods = <<>> => ld'[r].pc = "wait"
       /\ AssignStep(r) =>
            \A c \in store' \ store :
              /\ c.assignedTo # Identity(r)
              /\ \E n \in 1..Len(ld[r].workerPods) : c.assignedTo = ld[r].workerPods[n]]_vars

\* a round with a single follower has created a claim for it while the third
\* replica was not Running, and the leader itself was left out
C25_Witness ==
  \E r, q, x \in Pods :
    /\ r # q /\ x # r /\ x # q
    /\ LeaderActive(r)
    /\ ld[r].workerPods = <<q>>
    /\ proc[x] = "init"
    /\ \E c \in store : c.assignedTo = q

\* C26: the follower's update changes only the processed annotations of a
\* claim, and nothing deletes a claim: over every step each claim of the
\* store is still there with the same id, assigned-to label and task-data.
C26_UpdateFrame ==
  [][\A c \in store :
       \E d \in store' :
         /\ d.name = c.name
         /\ d.assignedTo = c.assignedTo
         /\ d.taskData = c.taskData
         /\ c.processed => d.processed]_vars

\* two followers have each marked a claim of the same round, which still
\* carry their own tasks
C26_Witness ==
  \E c, d \in store :
    /\ c.processed /\ d.processed
    /\ c.processedBy # d.processedBy
    /\ c.taskData = generateTasks[1]
    /\ d.taskData = generateTasks[2]

(***************************************************************************)
(* Claims about Pipeline.Run / Worker / Stop, checked under SpecPipeline   *)
(***************************************************************************)
\* C21: Pipeline.Stop is idempotent: a Stop on an already stopped pipeline
\* returns normally - the caller never ends in a panic.
C21_StopIdempotent == bpc # "panic"

\* the caller is past a Stop call
StopReturned == bpc \in {"done", "panic"}

\* C22: Stop returns only after every worker started by Run has exited, and
\* a Stop that was called does return, whether the workers were idle or had
\* probes in flight.
C22_StopWaitsAndReturns ==
  /\ [](StopReturned => \A w \in Workers : wk[w].st \in {"none", "exited"})
  /\ (bpc = "stop") ~> (bpc = "done")

\* Stop has returned after a worker finished the probe that was in flight
\* when done was closed, and delivered its result
C22_Witness ==
  /\ bpc = "done"
  /\ \E i \in 1..bi : inputs[i] # "" /\ resch[i] # <<>> /\ probeCount[inputs[i]] = 1
  /\ \A w \in Workers : wk[w].st \in {"none", "exited"}

\* C23: once done is closed no worker picks up a Commander waiting in the
\* request channel, and a worker executing a Commander is not stopped: it
\* leaves only from its select, after Execute has returned.
C23_NoPickupAfterStop ==
  [][\A w \in Workers :
       /\ done => ~(wk[w].st = "idle" /\ wk'[w].st = "exec")
       /\ (wk'[w].st = "exited" /\ wk[w].st # "exited") => wk[w].st = "idle"]_vars

\* this step is a call of MarkProcessed(x, err): a worker ends an Execute for
\* the input x that was not short-circuited
Marks(x) ==
  \E w \in Workers :
    /\ wk[w].call.input = x
    /\ wk[w].st \in {"exec", "fetchCmd", "fetchHTTP"}
    /\ wk'[w].st = "idle"
    /\ resch' # resch

\* C31: IsProcessed(x) is false for every input of a new FetchedInput, becomes
\* true with MarkProcessed(x, err) whatever err is, stays true ever after,
\* and a step that does not mark x leaves the status of x as it was.
C31_ProcessedOnceMarked ==
  /\ \A x \in InputSet : ~IsProcessed(memo, x)
  /\ [][\A x \in InputSet :
          /\ Marks(x) => IsProcessed(memo', x)
          /\ ~Marks(x) => (IsProcessed(memo', x) <=> IsProcessed(memo, x))
          /\ IsProcessed(memo, x) => IsProcessed(memo', x)]_vars

\* one input is marked with an error, one with nil, and one is not marked
C31_Witness ==
  /\ memo["x"] = "err"
  /\ memo[""] = "nil"
  /\ ~IsProcessed(memo, "y")
  /\ IsProcessed(memo, "x")

(***************************************************************************)
(* Claims about the request surface, checked under SpecRequest             *)
(***************************************************************************)
\* the kind of an item: Command unless a type is given
KindOf(it) == IF it["type"] = Absent THEN RequestTypeCmd ELSE it["type"]

\* the handler has parsed the document of a valid batch, or its base64
ParsedValid ==
  /\ rq.pc \in {"exec", "responded"}
  /\ rq.status # 400
  /\ ValidBatch(desc)
  /\ rq.params \in {JsonText(desc), Base64Encode(JsonText(desc))}

\* the Commanders execCmd has made so far
Calls == {request[n] : n \in 1..Len(request)} \cup {wk[w].call : w \in Workers}

\* C28: parseInputParams returns the same batch for the JSON document of a
\* valid batch and for its base64 encoding, and that batch is the descriptor:
\* the input, type and name found at index i are those of item i (a missing
\* type meaning Command), and execCmd runs item i with its input and type.
C28_ParseRoundTrip ==
  ParsedValid =>
    /\ parseInputParams(Base64Encode(JsonText(desc))) = parseInputParams(JsonText(desc))
    /\ inputs = [n \in 1..Len(desc) |-> desc[n]["input"]]
    /\ \A n \in 1..Len(desc) :
         /\ TypeAt(DefaultTypes(types), n) = KindOf(desc[n])
         /\ LET names == parseInputParams(rq.params).names
            IN  desc[n]["name"] # Absent => (n <= Len(names) /\ names[n] = desc[n]["name"])
    /\ \A c \in Calls :
         c.idx > 0 => (c.input = desc[c.idx]["input"] /\ c.sType = KindOf(desc[c.idx]))

\* the request is a submission error: the form, type or params is missing,
\* the params are no base64 and no JSON of a descriptor, or no item has a
\* usable input
SubmissionError ==
  \/ rq.method = "POST" /\ (rq.sType = "" \/ rq.params = <<>>)
  \/ (DecodeString(rq.params).err \/ Unmarshal(DecodeString(rq.params).out).err)
       /\ Unmarshal(rq.params).err
  \/ parseInputParams(rq.params).inputs = <<>>

\* C30: an HTTP request is answered with a non-2xx status exactly when it is
\* a submission error - then with 400 and without any WorkItem created;
\* every other request is answered with a 2xx status.
C30_Only400OnSubmissionError ==
  rq.pc = "responded" =>
    /\ rq.status \in {200, 400}
    /\ SubmissionError => (rq.status = 400 /\ results = <<>>)
    /\ rq.status = 400 =>
         (SubmissionError \/ rq.method = "POST") /\ \A x \in InputSet : probeCount[x] = 0

(***************************************************************************)
(* Claims about the task path, checked under SpecConfig                    *)
(***************************************************************************)
\* the name of an item: the subject unless a name is given
NameOf(it) == IF it["name"] = Absent THEN Subject ELSE it["name"]

\* every item of the descriptor carries its own type and name
FullyLabelled(X) == \A n \in 1..Len(X) : X[n]["type"] # Absent /\ X[n]["name"] # Absent

\* C27: the WorkItem the follower parses from a claim's task-data is the item
\* of the batch descriptor, field by field: execCmd is called with its input,
\* kind and name, and the parsed task carries its expect.
C27_TaskDataRoundTrip ==
  (rq.pc = "exec" /\ ValidBatch(desc) /\ FullyLabelled(desc)) =>
    LET it == desc[rq.k]
        task == UnmarshalTask(rq.taskData).task
    IN  /\ rq.args = [inputs |-> <<it["input"]>>, types |-> <<KindOf(it)>>,
                      names |-> <<NameOf(it)>>]
        /\ inputs = <<it["input"]>>
        /\ task["expect"] = it["expect"]

\* C29: generateTasks turns a configured descriptor of n items into n tasks
\* with the ids task-1..task-n in descriptor order, each with the command,
\* type and name of its own item, also when other items omit type or name.
C29_TasksFollowDescriptor ==
  (rq.pc \notin {"idle", "config"} /\ ValidBatch(desc)) =>
    /\ Len(rq.tasks) = Len(desc)
    /\ \A n \in 1..Len(desc) :
         /\ rq.tasks[n]["id"] = TaskId(n)
         /\ rq.tasks[n]["command"] = desc[n]["input"]
         /\ rq.tasks[n]["type"] = KindOf(desc[n])
         /\ rq.tasks[n]["name"] = NameOf(desc[n])

(***************************************************************************)
(* Claims about the rounds of the leader and the ticks of the followers,   *)
(* checked under Spec and SpecWork                                         *)
(***************************************************************************)
\* the claims whose task replica r is running: one per call of executeTask
\* that has not returned (processAssignedTasks runs in the one worker
\* goroutine of the process)
Executions(r) == IF fw[r].pc = "exec" THEN <<Head(fw[r].items).name>> ELSE <<>>

\* replica r runs the task of one claim twice at the same time
RunsTwice(r) ==
  \E i, j \in DOMAIN Executions(r) : i # j /\ Executions(r)[i] = Executions(r)[j]

C33_NoTaskLost ==
  \A r \in Pods :
    (ld[r].pc = "round" /\ ld[r].ctx = "live" /\ ld[r].workerPods # <<>>)
      => ENABLED (/\ AssignTask(r)
                  /\ \E c \in store' \ store : c.taskData = generateTasks[ld[r].k])

\* replica r is in executeTask for the claim named nm
Executing(r, nm) == fw[r].pc = "exec" /\ Head(fw[r].items).name = nm

\* C34: a follower executes the task of each ClaimRecord at most once over
\* all its ticks - once its execution of a claim is over, the follower is
\* never executing that claim again, also when the Update that marks the
\* claim processed failed.
C34_AtMostOnce ==
  \A r \in Pods : \A t \in 0..MaxTime :
    [](Executing(r, TaskName(Identity(r), t))
         => [](~Executing(r, TaskName(Identity(r), t))
                 => []~Executing(r, TaskName(Identity(r), t))))

\* C35: every ClaimRecord the leader creates is eventually marked processed,
\* whether or not the follower it is addressed to keeps running.
C35_EveryClaimProcessed ==
  \A r \in Pods : \A t \in 0..MaxTime : Pending(r, t) ~> Processed(r, t)

(***************************************************************************)
(* Claim about the work accepted by the pool, checked under SpecPipeline   *)
(***************************************************************************)
\* C36: no accepted work is lost by the pool - every Commander that was sent
\* into the request channel eventually delivers a value on its result
\* channel, even if Stop is called while it is still queued.
C36_NoAcceptedWorkLost ==
  \A i \in 1..MaxSent : (bi >= i) ~> (resch[i] # <<>>)

(***************************************************************************)
(* Claims about exeCmd, getInput and the chained pipeline of               *)
(* src/LEADER_ELECTION.md                                                   *)
(***************************************************************************)
\* the select loop of exeCmd receives the output of a child that has ended,
\* with no timer fired and no read error pending
ReceivesFromEndedChild ==
  /\ lx.pc = "select"
  /\ cp.rd = "sending" /\ cp'.rd = "sent"
  /\ cp.st = "exited"
  /\ cp.tmr # "fired"
  /\ ~cp.ech

\* C37: exeCmd reports success for every child that starts and finishes
\* before its timer fires, whatever it wrote to stdout: on receiving the
\* output of such a child the loop is left without an error, and cmd.Wait is
\* followed by the return of a nil error.
C37_FinishedChildSucceeds ==
  [][/\ ReceivesFromEndedChild => (lx'.pc = "wait" /\ lx'.xerr = "")
     /\ (lx.pc = "wait" /\ lx.xerr = "" /\ lx'.pc # "wait") => lx'.pc = "checkRslt"]_vars

\* what the batch descriptor of a request gives for its item n: the fields
\* of that item, "" for an absent expect, exec or receivers and G_TIMEOUT
\* for an absent timeout
Given(items, n) ==
  [n |-> n, input |-> items[n].input, sType |-> items[n].type, name |-> items[n].name,
   expect |-> IF "expect" \in items[n].has THEN items[n].expect ELSE "",
   exec |-> IF "exec" \in items[n].has THEN items[n].exec ELSE "",
   timeout |-> IF "timeout" \in items[n].has THEN Atoi(items[n].timeout).n ELSE G_TIMEOUT,
   execreceiver |-> IF "receivers" \in items[n].has THEN items[n].receivers ELSE ""]

\* C38: the type, expectation, remediation, receivers and timeout applied to
\* item i of a request are those given for item i in that same request,
\* whatever requests the process handled earlier.
C38_OwnDescriptorOnly ==
  \A w \in ChainWorkers :
    (cx.cur # <<>> /\ cw[w].st \in {"command", "fetch", "result"})
      => cw[w].call = Given(cx.cur, cw[w].call.n)

\* C39: in the chained pipeline the collector of execCmd receives the
\* ResultRecord of INPUTS[i] before that of INPUTS[i+1], for every
\* interleaving of the workers.
C39_ResultsInInputOrder ==
  \A i, j \in DOMAIN cx.got : i < j => cx.got[i].n < cx.got[j].n

\* C40: the count comparison is non-strict at the boundary - for an expect
\* made of the one alternative "$count < N" the check passes exactly when
\* the integer content is at most N, and for "$count > N" exactly when it is
\* at least N, so a content equal to N passes both.
C40_CountBoundary ==
  (/\ lx.cerr # "none"
   /\ Len(g.expect) = 1
   /\ g.expect[1].form \in {"$count < N", "$count > N"}
   /\ ~Atoi(TrimSpace(lx.raw)).err) =>
    LET n == Atoi(TrimSpace(lx.raw)).n
        N == g.expect[1].n
        passes == lx.cerr = "nil"
    IN  IF g.expect[1].form = "$count < N" THEN passes <=> n <= N ELSE passes <=> n >= N

\* "$count < N" was evaluated against a content equal to N and passed
C40_Witness ==
  /\ lx.pc = "done"
  /\ Len(g.expect) = 1
  /\ g.expect[1].form = "$count < N"
  /\ ~Atoi(TrimSpace(lx.raw)).err
  /\ Atoi(TrimSpace(lx.raw)).n = g.expect[1].n
  /\ lx.cerr = "nil"
  /\ lx.errCode = ErrorCodeSuccess

====
